---- MODULE Spec2Model ----
(***************************************************************************)
(* The streaming chat session client of app/static/js/chat_error.js        *)
(* (class AIBookChat): the server-sent event stream with its reconnect     *)
(* timer, the de-duplication of pushed message states, the reconciliation  *)
(* of events into the children of #chat-messages, optimistic send with     *)
(* rollback, and clear; and the page's save-book toggle (the main script), *)
(* with the server it talks to.                                            *)
(*                                                                         *)
(* Text (message content, typed input) is a sequence of one-character      *)
(* tokens; rendered HTML is a sequence of tokens in which a tag is one     *)
(* token.  Message ids and MessageStateKeys are strings, built by          *)
(* concatenation as the code builds them.                                  *)
(***************************************************************************)
EXTENDS Naturals, Sequences, FiniteSets, TLC

\* ------------------------------------------------------------------ bounds

\* children of #chat-messages (message nodes and book-result card lists)
MaxNodes == 3
\* send requests issued over a run
MaxSends == 2
\* values of Date.now(): 0..MaxClock
MaxClock == 1
\* EventSource objects created over a run
MaxStreams == 3
\* reconnect timers pending at once
MaxTimers == 2
\* clear (and chat-triggered save) requests in flight at once
MaxPending == 1
\* notifications visible at once
MaxToasts == 1
\* toggleSaveBook calls over a run
MaxToggles == 2

\* ------------------------------------------------------------------ inputs

\* data.content when the pushed object has no content field
Undefined == <<"undefined">>

\* ids the server uses for its messages
ServerIds == {"m1", "m2"}

\* data.status of the events pushed for an id; "" stands for an absent status
\* (both are falsy)
StatusesOf(id) == IF id = "m1" THEN {"thinking", "normal"} ELSE {"thinking", ""}

\* data.content: absent, plain text, text with bold markup and a newline
Contents == {Undefined, <<"a">>, <<"*", "*", "b", "*", "*", "\n">>}

\* data.actions: absent, a list of book cards, a save instruction
NoActions == [type |-> "none", books |-> <<>>, book_id |-> 0]

ActionsPayloads ==
    { NoActions,
      [type |-> "book_results", books |-> <<"book7">>, book_id |-> 0],
      [type |-> "save_book", books |-> <<>>, book_id |-> 7] }

\* the acknowledgment object {type: "connected"}
ConnectedEvent ==
    [type |-> "connected", id |-> "", role |-> "", status |-> "",
     content |-> Undefined, actions |-> NoActions]

\* Message-shaped pushed objects; a 'thinking' one carries no content
MessageEvents ==
    { e \in [type : {"message"}, id : ServerIds, role : {"assistant"},
             status : {"", "thinking", "normal"}, content : Contents,
             actions : ActionsPayloads] :
        /\ e.status \in StatusesOf(e.id)
        /\ e.status = "thinking" => e.content = Undefined }

Events == {ConnectedEvent} \cup MessageEvents

\* a pushed frame: whether JSON.parse accepts it, and the object it gives
Frames == [parses : {TRUE}, data : Events] \cup {[parses |-> FALSE, data |-> ConnectedEvent]}

\* the book ids that have save buttons on the page
Books == {7, 42}

\* the buttons carrying data-book-id of one book (a card and a detail view)
ButtonIds == {"card", "detail"}

\* what the user may have typed into #chat-input
Texts == { <<>>, <<" ">>, <<" ", "\n">>, <<"a">>, <<" ", "a", " ">> }

\* ------------------------------------------------------------------- state

VARIABLES
    hidden,             \* #chat-widget carries the class 'hidden'
    isConnected,        \* this.isConnected
    eventSource,        \* this.eventSource: an index into streams, 0 for null
    streams,            \* readyState of every EventSource created so far
    timers,             \* reconnect timers set by onerror and not yet fired
    connectionStatus,   \* class of #connection-status: "", "connected", "error"
    messages,           \* children of #chat-messages, in document order
    processedMessages,  \* this.processedMessages
    now,                \* Date.now()
    sends,              \* /api/chat/send requests in flight
    sendCount,          \* sendMessage invocations that issued a request
    clears,             \* DELETE /api/chat/clear requests in flight
    saves,              \* POST /api/books/{id}/save requests in flight
    notifications,      \* notification elements in document.body
    savedBooks,         \* the main script's savedBooks
    btnSaved,           \* per button: it shows 'Saved' rather than 'Save Book'
    btnDisabled,        \* per button: btn.disabled
    load,               \* the page-load GET /api/saved-books and its answer
    toggles,            \* POST /api/save-book/{id} requests in flight
    toggleCount,        \* toggleSaveBook calls so far
    serverSaved,        \* the saved books as the server holds them
    last                \* the handler that ran last

connVars == <<hidden, isConnected, eventSource, streams, timers, connectionStatus>>

chatVars == <<messages, processedMessages, now, sends, sendCount, clears, saves,
              notifications>>

bookVars == <<savedBooks, btnSaved, btnDisabled, load, toggles, toggleCount,
              serverSaved>>

vars == <<connVars, chatVars, bookVars, last>>

\* ----------------------------------------------------------------- helpers

RECURSIVE firstClose(_, _)
\* The least k >= j with text[k..k+1] = "**" and no line break in text[j..k-1];
\* 0 when there is none: where the lazy group (.*?) of /\*\*(.*?)\*\*/ ends.
firstClose(text, j) ==
    IF j + 1 > Len(text) THEN 0
    ELSE IF text[j] = "*" /\ text[j + 1] = "*" THEN j
    ELSE IF text[j] = "\n" THEN 0
    ELSE firstClose(text, j + 1)

RECURSIVE replaceBold(_)
\* text.replace(/\*\*(.*?)\*\*/g, '<strong>$1</strong>')
replaceBold(text) ==
    IF text = <<>> THEN <<>>
    ELSE LET k == IF Len(text) >= 4 /\ text[1] = "*" /\ text[2] = "*"
                  THEN firstClose(text, 3) ELSE 0
         IN IF k > 0
            THEN <<"<strong>">> \o SubSeq(text, 3, k - 1) \o <<"</strong>">>
                 \o replaceBold(SubSeq(text, k + 2, Len(text)))
            ELSE <<Head(text)>> \o replaceBold(Tail(text))

\* .replace(/\n/g, '<br>')
replaceNewlines(text) ==
    [i \in 1..Len(text) |-> IF text[i] = "\n" THEN "<br>" ELSE text[i]]

\* AIBookChat.parseMarkdown, for a string argument
parseMarkdown(text) == replaceNewlines(replaceBold(text))

IsSpace(ch) == ch \in {" ", "\n"}

RECURSIVE trimStart(_)
trimStart(text) ==
    IF text # <<>> /\ IsSpace(Head(text)) THEN trimStart(Tail(text)) ELSE text

RECURSIVE trimEnd(_)
trimEnd(text) ==
    IF text # <<>> /\ IsSpace(text[Len(text)])
    THEN trimEnd(SubSeq(text, 1, Len(text) - 1)) ELSE text

trimNothing(text) == text

\* String.prototype.trim
trim(text) == trimEnd(trimStart(text))

\* '<span class="thinking-dots"></span>'
ThinkingDots == <<"<span class=thinking-dots></span>">>

\* ------------------------------------------------- the transcript's nodes

\* A child of #chat-messages.  kind "message": a div.message with its
\* data-message-id, role class, 'thinking' class and the innerHTML of its
\* .message-content; kind "book-results": a card list.  owner is the number
\* of the sendMessage invocation that created the node (0: none); the code
\* keeps no such field, it only names the node in the properties below.
Node(kind, id, role, thinking, content, owner) ==
    [kind |-> kind, id |-> id, role |-> role, thinking |-> thinking,
     content |-> content, owner |-> owner]

\* `${data.id}_${data.status || 'initial'}`
MessageStateKey(data) ==
    data.id \o "_" \o (IF data.status = "" THEN "initial" ELSE data.status)

hasNever(processed, key) == FALSE

\* this.processedMessages.has(messageKey)
has(processed, key) == key \in processed

\* document.querySelector(`[data-message-id="${id}"]`): the index of the first
\* node with that id, 0 for null
querySelectorId(nodes, id) ==
    LET hits == {i \in 1..Len(nodes) : nodes[i].kind = "message" /\ nodes[i].id = id}
    IN IF hits = {} THEN 0 ELSE CHOOSE i \in hits : \A j \in hits : i <= j

TempIds == {"temp_" \o ToString(t) : t \in 0..MaxClock}

\* document.querySelector('[data-message-id^="temp_"]')
querySelectorTemp(nodes) ==
    LET hits == {i \in 1..Len(nodes) : nodes[i].kind = "message" /\ nodes[i].id \in TempIds}
    IN IF hits = {} THEN 0 ELSE CHOOSE i \in hits : \A j \in hits : i <= j

\* element.remove() of the node at index i
removeAt(nodes, i) ==
    SubSeq(nodes, 1, i - 1) \o SubSeq(nodes, i + 1, Len(nodes))

\* parseMarkdown(undefined) throws a TypeError; a 'thinking' message never
\* reaches parseMarkdown
rendersOk(message) ==
    message.status = "thinking" \/ message.content # Undefined

\* the innerHTML a message is given (lines 150-155 and 179-183)
rendered(message) ==
    IF message.status = "thinking" THEN ThinkingDots
    ELSE parseMarkdown(message.content)

addMessageToChatFirst(nodes, message, owner) ==
    <<Node("message", message.id, message.role, message.status = "thinking",
           rendered(message), owner)>> \o nodes

\* AIBookChat.addMessageToChat, for a message that renders
addMessageToChat(nodes, message, owner) ==
    Append(nodes, Node("message", message.id, message.role,
                       message.status = "thinking", rendered(message), owner))

updateExistingAppends(nodes, i, data) ==
    Append(nodes, [nodes[i] EXCEPT !.content = rendered(data)])

\* handleMessage's update of the node found (lines 146-156)
updateExisting(nodes, i, data) ==
    IF data.status = "thinking"
    THEN [nodes EXCEPT ![i].content = ThinkingDots]
    ELSE [nodes EXCEPT ![i].content = parseMarkdown(data.content),
                       ![i].thinking = FALSE]

\* the children after handleActions(actions); save_book leaves them alone
handleActionsNodes(nodes, actions) ==
    IF actions.type = "book_results"
    THEN Append(nodes, Node("book-results", "", "", FALSE, actions.books, 0))
    ELSE nodes

\* the children after handleMessage's lines 144-164, for a message that renders
reconciled(nodes, data) ==
    LET i == querySelectorId(nodes, data.id)
        shown == IF i # 0 THEN updateExisting(nodes, i, data)
                 ELSE addMessageToChat(nodes, data, 0)
    IN handleActionsNodes(shown, data.actions)

\* the 'welcome' message of addWelcomeMessage
WelcomeMessage ==
    [type |-> "message", id |-> "welcome", role |-> "assistant", status |-> "",
     content |-> <<"H", "e", "l", "l", "o", "!">>, actions |-> NoActions]

\* the synthetic error message of sendMessage's catch block
ErrorMessage(t) ==
    [type |-> "message", id |-> "error_" \o ToString(t), role |-> "assistant",
     status |-> "error", content |-> <<"S", "o", "r", "r", "y">>,
     actions |-> NoActions]

\* the optimistic user message of sendMessage
TempMessage(t, message) ==
    [type |-> "message", id |-> "temp_" \o ToString(t), role |-> "user",
     status |-> "", content |-> message, actions |-> NoActions]

\* showNotification: the element appended to document.body
Notification(message, type) == [message |-> message, type |-> type]

\* the handler that ran last: its name, the id and status of the pushed object
\* (onmessage), the request or stream it ran for, and the path it took
Last(op, id, status, req, result) ==
    [op |-> op, id |-> id, status |-> status, req |-> req, result |-> result]

\* -------------------------------------------------------------- connection

\* eventSource.close(): readyState CLOSED, no handler of it runs afterwards
closeStreamNot(ss, s) == ss

closeStream(ss, s) ==
    IF s = 0 THEN ss ELSE [ss EXCEPT ![s] = "CLOSED"]

\* AIBookChat.connectToSSE: close the previous EventSource, create the next
connectToSSE ==
    /\ Len(streams) < MaxStreams
    /\ streams' = Append(closeStream(streams, eventSource), "CONNECTING")
    /\ eventSource' = Len(streams) + 1

shouldReconnectAlways(connected, isHidden) == TRUE

shouldReconnectNever(connected, isHidden) == FALSE

\* the reconnect timer's condition (line 120); #chat-widget exists
shouldReconnect(connected, isHidden) == ~connected /\ ~isHidden

\* AIBookChat.toggleChat
toggleChat ==
    /\ hidden' = ~hidden
    /\ IF ~hidden' /\ ~isConnected
       THEN connectToSSE
       ELSE UNCHANGED <<streams, eventSource>>
    /\ last' = Last("toggleChat", "", "", 0,
                    IF ~hidden' /\ ~isConnected THEN "connect" ELSE "none")
    /\ UNCHANGED <<isConnected, timers, connectionStatus, chatVars>>
    /\ UNCHANGED bookVars

\* eventSource.onopen of stream s: the browser has established the connection
onopen(s) ==
    /\ streams[s] = "CONNECTING"
    /\ streams' = [streams EXCEPT ![s] = "OPEN"]
    /\ isConnected' = TRUE
    /\ connectionStatus' = "connected"
    /\ last' = Last("onopen", "", "", s, "none")
    /\ UNCHANGED <<hidden, eventSource, timers, chatVars>>
    /\ UNCHANGED bookVars

\* eventSource.onerror of stream s: the browser lost the connection and either
\* retries it itself (readyState CONNECTING) or gives up (CLOSED); the handler
\* sets one timer
onerror(s, fatal) ==
    /\ streams[s] \in {"CONNECTING", "OPEN"}
    /\ timers < MaxTimers
    /\ streams' = [streams EXCEPT ![s] = IF fatal THEN "CLOSED" ELSE "CONNECTING"]
    /\ connectionStatus' = "error"
    /\ isConnected' = FALSE
    /\ timers' = timers + 1
    /\ last' = Last("onerror", "", "", s, "none")
    /\ UNCHANGED <<hidden, eventSource, chatVars>>
    /\ UNCHANGED bookVars

\* the callback of setTimeout(..., 5000) in onerror
reconnectTimer ==
    /\ timers > 0
    /\ timers' = timers - 1
    /\ IF shouldReconnect(isConnected, hidden)
       THEN connectToSSE
       ELSE UNCHANGED <<streams, eventSource>>
    /\ last' = Last("reconnectTimer", "", "", 0,
                    IF shouldReconnect(isConnected, hidden) THEN "connect" ELSE "none")
    /\ UNCHANGED <<hidden, isConnected, connectionStatus, chatVars>>
    /\ UNCHANGED bookVars

\* ------------------------------------------------------------------ events

\* AIBookChat.handleMessage(data), with the try/catch of onmessage around it:
\* an exception ends the handler where it is thrown, after the key was added
handleMessage(data) ==
    LET messageKey == MessageStateKey(data) IN
    IF data.type = "connected"
    THEN /\ UNCHANGED <<messages, processedMessages, saves>>
         /\ last' = Last("onmessage", data.id, data.status, 0, "connected")
    ELSE IF has(processedMessages, messageKey)
    THEN /\ UNCHANGED <<messages, processedMessages, saves>>
         /\ last' = Last("onmessage", data.id, data.status, 0, "skipped")
    ELSE /\ processedMessages' = processedMessages \cup {messageKey}
         /\ IF ~rendersOk(data)
            THEN /\ UNCHANGED <<messages, saves>>
                 /\ last' = Last("onmessage", data.id, data.status, 0, "threw")
            ELSE /\ messages' = reconciled(messages, data)
                 /\ Len(messages') <= MaxNodes
                 /\ IF data.actions.type = "save_book"
                    THEN saves < MaxPending /\ saves' = saves + 1
                    ELSE UNCHANGED saves
                 /\ last' = Last("onmessage", data.id, data.status, 0,
                                 IF querySelectorId(messages, data.id) # 0
                                 THEN "updated" ELSE "added")

onmessageRecords(s, frame) ==
    /\ streams[s] = "OPEN"
    /\ IF frame.parses
       THEN handleMessage(frame.data)
       ELSE /\ processedMessages' = processedMessages \cup {"undefined_initial"}
            /\ UNCHANGED <<messages, saves>>
            /\ last' = Last("onmessage", "", "", 0, "unparsable")
    /\ UNCHANGED <<connVars, now, sends, sendCount, clears, notifications>>
    /\ UNCHANGED bookVars

\* eventSource.onmessage of stream s; frame.parses is whether JSON.parse
\* succeeds, frame.data what it returns
onmessage(s, frame) ==
    /\ streams[s] = "OPEN"
    /\ IF frame.parses
       THEN handleMessage(frame.data)
       ELSE /\ UNCHANGED <<messages, processedMessages, saves>>
            /\ last' = Last("onmessage", "", "", 0, "unparsable")
    /\ UNCHANGED <<connVars, now, sends, sendCount, clears, notifications>>
    /\ UNCHANGED bookVars

\* ------------------------------------------------------------------- send

\* AIBookChat.sendMessage up to its await of fetch, the input holding text
sendMessage(text) ==
    LET message == trim(text) IN
    IF message = <<>>
    THEN /\ last' = Last("sendMessage", "", "", 0, "empty")
         /\ UNCHANGED <<connVars, chatVars, bookVars>>
    ELSE /\ sendCount < MaxSends
         /\ Len(messages) < MaxNodes
         /\ sendCount' = sendCount + 1
         /\ messages' = addMessageToChat(messages, TempMessage(now, message),
                                         sendCount + 1)
         /\ sends' = sends \cup {sendCount + 1}
         /\ last' = Last("sendMessage", "", "", sendCount + 1, "sent")
         /\ UNCHANGED <<connVars, processedMessages, now, clears, saves,
                        notifications, bookVars>>

\* sendMessage after its await, for request r: outcome "ok" (2xx, with a JSON
\* body), "non2xx" or "network" (fetch rejected)
sendResponse(r, outcome) ==
    /\ r \in sends
    /\ sends' = sends \ {r}
    /\ IF outcome = "ok"
       THEN UNCHANGED messages
       ELSE LET t == querySelectorTemp(messages)
                kept == IF t # 0 THEN removeAt(messages, t) ELSE messages
            IN /\ messages' = addMessageToChat(kept, ErrorMessage(now), 0)
               /\ Len(messages') <= MaxNodes
    /\ last' = Last("sendResponse", "", "", r, outcome)
    /\ UNCHANGED <<connVars, processedMessages, now, sendCount, clears, saves,
                   notifications>>
    /\ UNCHANGED bookVars

\* ------------------------------------------------------------------ clear

\* AIBookChat.clearChat up to its await of fetch; confirmed is confirm()'s answer
clearChat(confirmed) ==
    /\ IF confirmed
       THEN clears < MaxPending /\ clears' = clears + 1
       ELSE UNCHANGED clears
    /\ last' = Last("clearChat", "", "", 0,
                    IF confirmed THEN "requested" ELSE "declined")
    /\ UNCHANGED <<connVars, messages, processedMessages, now, sends, sendCount,
                   saves, notifications>>
    /\ UNCHANGED bookVars

clearedKeepsKeys(processed) == processed

\* this.processedMessages.clear()
cleared(processed) == {}

\* clearChat after its await: outcome "ok", "non2xx" or "network"
clearResponse(outcome) ==
    /\ clears > 0
    /\ clears' = clears - 1
    /\ IF outcome = "ok"
       THEN /\ messages' = addMessageToChat(<<>>, WelcomeMessage, 0)
            /\ processedMessages' = cleared(processedMessages)
            /\ UNCHANGED notifications
       ELSE IF outcome = "network"
       THEN /\ Len(notifications) < MaxToasts
            /\ notifications' = Append(notifications,
                                       Notification("Failed to clear chat", "error"))
            /\ UNCHANGED <<messages, processedMessages>>
       ELSE UNCHANGED <<messages, processedMessages, notifications>>
    /\ last' = Last("clearResponse", "", "", 0, outcome)
    /\ UNCHANGED <<connVars, now, sends, sendCount, saves>>
    /\ UNCHANGED bookVars

\* ------------------------------------------------------- chat-triggered save

\* AIBookChat.saveBook after its await: outcome "ok", "non2xx" or "network"
saveBookResponse(outcome) ==
    /\ saves > 0
    /\ saves' = saves - 1
    /\ IF outcome = "ok"
       THEN /\ Len(notifications) < MaxToasts
            /\ notifications' = Append(notifications,
                                       Notification("Book saved to your list!", "success"))
       ELSE IF outcome = "network"
       THEN /\ Len(notifications) < MaxToasts
            /\ notifications' = Append(notifications,
                                       Notification("Failed to save book", "error"))
       ELSE UNCHANGED notifications
    /\ last' = Last("saveBookResponse", "", "", 0, outcome)
    /\ UNCHANGED <<connVars, messages, processedMessages, now, sends, sendCount,
                   clears>>
    /\ UNCHANGED bookVars

\* the callback of showNotification's setTimeout(..., 3000): the oldest
\* notification is removed
notificationTimer ==
    /\ notifications # <<>>
    /\ notifications' = Tail(notifications)
    /\ last' = Last("notificationTimer", "", "", 0, "none")
    /\ UNCHANGED <<connVars, messages, processedMessages, now, sends, sendCount,
                   clears, saves>>
    /\ UNCHANGED bookVars

\* Date.now() advances
tick ==
    /\ now < MaxClock
    /\ now' = now + 1
    /\ last' = Last("tick", "", "", 0, "none")
    /\ UNCHANGED <<connVars, messages, processedMessages, sends, sendCount,
                   clears, saves, notifications>>
    /\ UNCHANGED bookVars

\* ------------------------------------------------------ the save-book toggle

\* document.querySelectorAll(`[data-book-id="${bookId}"]`) with btn.disabled
\* set on each (lines 35-38 and 71)
setDisabled(dis, bookId, value) ==
    [b \in Books |-> IF b = bookId THEN [i \in ButtonIds |-> value] ELSE dis[b]]

updateBookButtonsFirst(btns, bookId, isSaved) ==
    [btns EXCEPT ![bookId]["card"] = isSaved]

\* updateBookButtons: every button of the book shows isSaved
updateBookButtons(btns, bookId, isSaved) ==
    [b \in Books |-> IF b = bookId THEN [i \in ButtonIds |-> isSaved] ELSE btns[b]]

\* updateAllSaveButtons: updateBookButtons(bookId, true) for each saved book
updateAllSaveButtons(btns, saved) ==
    [b \in Books |-> IF b \in saved THEN [i \in ButtonIds |-> TRUE] ELSE btns[b]]

\* the toggle requests in flight for a book
togglesOf(bookId) == {r \in toggles : r.book = bookId}

\* toggleSaveBook(bookId) up to its await of fetch, from a click or from
\* window.handleChatBookAction('save', bookId).  overlap notes that another
\* request for the same book was in flight together with this one; the code
\* keeps no such field.
toggleSaveBook(bookId) ==
    /\ toggleCount < MaxToggles
    /\ toggleCount' = toggleCount + 1
    /\ btnDisabled' = setDisabled(btnDisabled, bookId, TRUE)
    /\ toggles' = {IF r.book = bookId THEN [r EXCEPT !.overlap = TRUE] ELSE r :
                     r \in toggles}
                  \cup {[n |-> toggleCount + 1, book |-> bookId, reply |-> "pending",
                         overlap |-> togglesOf(bookId) # {}]}
    /\ last' = Last("toggleSaveBook", ToString(bookId), "", toggleCount + 1, "sent")
    /\ UNCHANGED <<connVars, chatVars, savedBooks, btnSaved, load, serverSaved>>

\* the server handles POST /api/save-book/{id}: it toggles the book and answers
\* {success: true, saved}, or answers {success: false}, or the request fails
\* (fetch rejects, or the body is no JSON)
serverToggle(r, outcome) ==
    /\ r \in toggles
    /\ r.reply = "pending"
    /\ IF outcome = "ok"
       THEN /\ serverSaved' = IF r.book \in serverSaved
                              THEN serverSaved \ {r.book}
                              ELSE serverSaved \cup {r.book}
            /\ toggles' = (toggles \ {r}) \cup
                          {[r EXCEPT !.reply = IF r.book \in serverSaved
                                               THEN "unsaved" ELSE "saved"]}
       ELSE /\ UNCHANGED serverSaved
            /\ toggles' = (toggles \ {r}) \cup
                          {[r EXCEPT !.reply = IF outcome = "non2xx"
                                               THEN "failed" ELSE "network"]}
    /\ last' = Last("serverToggle", "", "", r.n, outcome)
    /\ UNCHANGED <<connVars, chatVars, savedBooks, btnSaved, btnDisabled, load,
                   toggleCount>>

\* toggleSaveBook after its awaits, for the answered request r
toggleResponse(r) ==
    /\ r \in toggles
    /\ r.reply # "pending"
    /\ toggles' = toggles \ {r}
    /\ Len(notifications) < MaxToasts
    /\ IF r.reply \in {"saved", "unsaved"}
       THEN /\ savedBooks' = IF r.reply = "saved" THEN savedBooks \cup {r.book}
                             ELSE savedBooks \ {r.book}
            /\ btnSaved' = updateBookButtons(btnSaved, r.book, r.reply = "saved")
            /\ notifications' = Append(notifications,
                  Notification("data.message",
                               IF r.reply = "saved" THEN "success" ELSE "info"))
       ELSE /\ UNCHANGED <<savedBooks, btnSaved>>
            /\ notifications' = Append(notifications,
                  Notification("Error saving book", "error"))
    /\ btnDisabled' = setDisabled(btnDisabled, r.book, FALSE)
    /\ last' = Last("toggleResponse", ToString(r.book),
                     IF r.overlap THEN "overlap" ELSE "", r.n, r.reply)
    /\ UNCHANGED <<connVars, messages, processedMessages, now, sends, sendCount,
                   clears, saves, load, toggleCount, serverSaved>>

\* the server handles GET /api/saved-books: it answers with the books saved
\* at that moment, or not 2xx, or the request fails
serverLoad(outcome) ==
    /\ load.phase = "sent"
    /\ load' = [phase |-> "answered", reply |-> outcome,
                books |-> IF outcome = "ok" THEN serverSaved ELSE {}]
    /\ last' = Last("serverLoad", "", "", 0, outcome)
    /\ UNCHANGED <<connVars, chatVars, savedBooks, btnSaved, btnDisabled, toggles,
                   toggleCount, serverSaved>>

\* the DOMContentLoaded handler after its await: loadSavedBooks replaces
\* savedBooks when the answer is 2xx, then updateAllSaveButtons runs
loadResponse ==
    /\ load.phase = "answered"
    /\ load' = [phase |-> "done", reply |-> load.reply, books |-> {}]
    /\ savedBooks' = IF load.reply = "ok" THEN load.books ELSE savedBooks
    /\ btnSaved' = updateAllSaveButtons(btnSaved, savedBooks')
    /\ last' = Last("loadResponse", "", "", 0, load.reply)
    /\ UNCHANGED <<connVars, chatVars, btnDisabled, toggles, toggleCount,
                   serverSaved>>

\* ---------------------------------------------------------- specifications

Outcomes == {"ok", "non2xx", "network"}

\* The state the DOMContentLoaded handlers leave: nothing processed, no stream
\* unless the widget is shown, and then one connecting stream; the buttons as
\* the page shows them before the script marks any ('Save Book', enabled),
\* savedBooks empty and the request for the saved books in flight.
InitWith(saved) ==
    /\ hidden \in BOOLEAN
    /\ isConnected = FALSE
    /\ streams = IF hidden THEN <<>> ELSE <<"CONNECTING">>
    /\ eventSource = IF hidden THEN 0 ELSE 1
    /\ timers = 0
    /\ connectionStatus = ""
    /\ messages = <<>>
    /\ processedMessages = {}
    /\ now = 0
    /\ sends = {}
    /\ sendCount = 0
    /\ clears = 0
    /\ saves = 0
    /\ notifications = <<>>
    /\ savedBooks = {}
    /\ btnSaved = [b \in Books |-> [i \in ButtonIds |-> FALSE]]
    /\ btnDisabled = [b \in Books |-> [i \in ButtonIds |-> FALSE]]
    /\ load = [phase |-> "sent", reply |-> "", books |-> {}]
    /\ toggles = {}
    /\ toggleCount = 0
    /\ serverSaved = saved
    /\ last = Last("constructor", "", "", 0, "none")

\* a session in which the server holds no saved book
Init == InitWith({})

\* the widget is shown when the page loads
InitShown == Init /\ ~hidden

\* the page loaded with any set of books saved on the server, the widget hidden
InitBooks == \E saved \in SUBSET Books : InitWith(saved) /\ hidden

NextConn ==
    \/ toggleChat
    \/ \E s \in 1..Len(streams) : onopen(s)
    \/ \E s \in 1..Len(streams), fatal \in BOOLEAN : onerror(s, fatal)
    \/ reconnectTimer

\* pushed events, clears and chat-triggered saves
NextChat ==
    \/ \E s \in 1..Len(streams) : onopen(s)
    \/ \E s \in 1..Len(streams), frame \in Frames : onmessage(s, frame)
    \/ \E confirmed \in BOOLEAN : clearChat(confirmed)
    \/ \E outcome \in Outcomes : clearResponse(outcome)
    \/ \E outcome \in Outcomes : saveBookResponse(outcome)
    \/ notificationTimer

\* sends, with the clock, and clears
NextSend ==
    \/ \E text \in Texts : sendMessage(text)
    \/ \E r \in sends, outcome \in Outcomes : sendResponse(r, outcome)
    \/ \E confirmed \in BOOLEAN : clearChat(confirmed)
    \/ \E outcome \in Outcomes : clearResponse(outcome)
    \/ tick

\* the page's save buttons: the page-load request, toggles and the server
NextBooks ==
    \/ \E b \in Books : toggleSaveBook(b)
    \/ \E r \in toggles, outcome \in Outcomes : serverToggle(r, outcome)
    \/ \E r \in toggles : toggleResponse(r)
    \/ \E outcome \in Outcomes : serverLoad(outcome)
    \/ loadResponse
    \/ notificationTimer

\* the transcript under pushed events, clears and saves, the widget shown
Spec == InitShown /\ [][NextChat]_vars

\* the transcript under sends and clears, the widget shown
SpecSend == InitShown /\ [][NextSend]_vars

\* the connection: toggles, opens, errors and reconnect timers
SpecConn == Init /\ [][NextConn]_vars

\* the connection with a stream held back for every reconnect: a fatal error
\* happens only while a further stream can still be created
NextConnHeals ==
    \/ toggleChat
    \/ \E s \in 1..Len(streams) : onopen(s)
    \/ \E s \in 1..Len(streams), fatal \in BOOLEAN :
          (fatal => Len(streams) < MaxStreams) /\ onerror(s, fatal)
    \/ reconnectTimer

\* the connection under fair scheduling: a timer that is due fires, and a
\* stream that keeps trying to connect is opened eventually
SpecConnFair ==
    /\ Init
    /\ [][NextConnHeals]_vars
    /\ WF_vars(reconnectTimer)
    /\ SF_vars(\E s \in 1..Len(streams) : onopen(s))

\* the save buttons of the page
SpecBooks == InitBooks /\ [][NextBooks]_vars

\* everything interleaved
SpecAll == Init /\ [][NextConn \/ NextChat \/ NextSend \/ NextBooks]_vars

\* ------------------------------------------------------------- properties

\* the transcript entries: the message nodes among the children, in order
IsMessageNode(n) == n.kind = "message"

Entries(nodes) == SelectSeq(nodes, IsMessageNode)

\* the indices of the entries that carry id
EntriesWithId(nodes, id) ==
    {i \in 1..Len(nodes) : nodes[i].kind = "message" /\ nodes[i].id = id}

\* the step just taken ran onmessage on a Message-shaped object; last' holds
\* the object's id and status
Pushed == last'.op = "onmessage" /\ last'.id \in ServerIds

\* the MessageStateKey of that object
PushedKey == MessageStateKey([id |-> last'.id, status |-> last'.status])

\* C1: an event whose MessageStateKey is already in processedMessages changes
\* neither the transcript nor the set and dispatches no action (no card list,
\* no save request), whatever its content and actions; and a key stays in the
\* set until a clear succeeds, so each key changes the transcript at most once.
C1_DuplicateKeyDropped ==
    [][ /\ (Pushed /\ PushedKey \in processedMessages)
              => UNCHANGED <<messages, processedMessages, saves, notifications>>
        /\ \/ processedMessages \subseteq processedMessages'
           \/ (last'.op = "clearResponse" /\ last'.result = "ok") ]_vars

\* a re-delivered event was dropped on a transcript that holds entries
C1_Witness ==
    /\ last.op = "onmessage"
    /\ last.result = "skipped"
    /\ EntriesWithId(messages, last.id) # {}

\* C2: an applied event whose id is the id of a transcript entry updates in
\* place: the entries keep their number, and every child keeps its place, id
\* and kind, the entries of other ids unchanged.
C2_UpdateInPlace ==
    [][ ( /\ Pushed
          /\ PushedKey \notin processedMessages
          /\ EntriesWithId(messages, last'.id) # {} )
        => /\ Len(Entries(messages')) = Len(Entries(messages))
           /\ Len(messages') >= Len(messages)
           /\ \A i \in 1..Len(messages) :
                 /\ messages'[i].id = messages[i].id
                 /\ messages'[i].kind = messages[i].kind
                 /\ messages[i].id # last'.id => messages'[i] = messages[i] ]_vars

\* an entry that is not the last one was updated
C2_Witness ==
    /\ last.op = "onmessage"
    /\ last.result = "updated"
    /\ Len(Entries(messages)) >= 2
    /\ Entries(messages)[1].id = last.id
    /\ Entries(messages)[1].content # ThinkingDots

C4_RollbackOwnEntry ==
    [][ \A r \in sends, outcome \in {"non2xx", "network"} :
          sendResponse(r, outcome)
          => LET others(n) == n.owner # r
                 kept == SelectSeq(messages, others)
             IN /\ Len(messages') = Len(kept) + 1
                /\ SubSeq(messages', 1, Len(kept)) = kept
                /\ messages'[Len(messages')].role = "assistant"
                /\ messages'[Len(messages')].owner = 0 ]_vars

\* C5: at most one EventSource of the client is open or connecting, and it is
\* the one this.eventSource holds.
C5_OneLiveStream ==
    \A s \in 1..Len(streams) : streams[s] # "CLOSED" => s = eventSource

\* a stream was replaced by a newer one that is live
C5_Witness ==
    /\ Len(streams) >= 2
    /\ streams[Len(streams)] # "CLOSED"
    /\ streams[Len(streams) - 1] = "CLOSED"

\* C6: a stream error marks the client disconnected, sets the indicator to
\* the error state and sets exactly one timer; the timer's firing opens a new
\* stream if and only if the widget is shown and the client is not connected.
C6_ErrorSchedulesOneReconnect ==
    [][ /\ \A s \in 1..Len(streams), fatal \in BOOLEAN :
              onerror(s, fatal)
              => /\ ~isConnected'
                 /\ connectionStatus' = "error"
                 /\ timers' = timers + 1
                 /\ Len(streams') = Len(streams)
        /\ reconnectTimer
              => /\ (Len(streams') = Len(streams) + 1) <=> (~hidden /\ ~isConnected)
                 /\ Len(streams') \in {Len(streams), Len(streams) + 1}
                 /\ Len(streams') = Len(streams) => streams' = streams ]_vars

\* a timer fired and reconnected
C6_Witness ==
    /\ last.op = "reconnectTimer"
    /\ last.result = "connect"
    /\ Len(streams) >= 2

\* C7: right after a clear whose request succeeds the transcript is the
\* welcome message alone and processedMessages is empty.
C7_ClearLeavesWelcome ==
    [][ clearResponse("ok")
          => /\ Len(messages') = 1
             /\ messages'[1].kind = "message"
             /\ messages'[1].id = "welcome"
             /\ messages'[1].content = parseMarkdown(WelcomeMessage.content)
             /\ processedMessages' = {} ]_vars

\* a clear succeeded while a chat-triggered save was still in flight
C7_Witness ==
    /\ last.op = "clearResponse"
    /\ last.result = "ok"
    /\ saves > 0

\* C8, as claimed: a confirmed clear that fails, by a rejected request or by
\* a non-2xx answer, shows an error notification and leaves the transcript
\* and processedMessages as they were.
C8_FailedClearNotifies ==
    [][ \A outcome \in {"non2xx", "network"} :
          clearResponse(outcome)
          => /\ Len(notifications') = Len(notifications) + 1
             /\ notifications'[Len(notifications')].type = "error"
             /\ UNCHANGED <<messages, processedMessages>> ]_vars

\* C9, as claimed: a 'thinking' event that added an entry, followed by an
\* event with the same id, another status and a content c, leaves exactly one
\* entry with that id, showing c rendered, its 'thinking' marker cleared.
C9_ThinkingThenContent ==
    [][ \A frame \in Frames :
          ( /\ last.op = "onmessage"
            /\ last.status = "thinking"
            /\ last.result = "added"
            /\ frame.parses
            /\ frame.data.id = last.id
            /\ frame.data.status # "thinking"
            /\ frame.data.content # Undefined
            /\ \E s \in 1..Len(streams) : onmessage(s, frame) )
          => \E i \in 1..Len(messages') :
                /\ EntriesWithId(messages', frame.data.id) = {i}
                /\ messages'[i].content = parseMarkdown(frame.data.content)
                /\ ~messages'[i].thinking ]_vars

\* whitespace only (the empty text included)
AllSpace(text) == \A i \in 1..Len(text) : text[i] \in {" ", "\n"}

\* C10: sendMessage on an input that is empty or whitespace only issues no
\* request and changes neither the transcript nor processedMessages.
C10_EmptySendIsNoOp ==
    [][ \A text \in Texts :
          (AllSpace(text) /\ sendMessage(text))
          => UNCHANGED <<messages, processedMessages, sends, sendCount>> ]_vars

\* a whitespace-only send was dropped while another send was in flight
C10_Witness ==
    /\ last.op = "sendMessage"
    /\ last.result = "empty"
    /\ sends # {}

\* every button of the book shows the same state
buttonsAgree(bookId) ==
    \A i, j \in ButtonIds : btnSaved[bookId][i] = btnSaved[bookId][j]

\* C11: when two toggleSaveBook calls for one book overlapped and their
\* responses were handled in either order, then once no toggle for the book is
\* in flight all buttons of the book show the same state.
C11_OverlappingTogglesAgree ==
    \A b \in Books : togglesOf(b) = {} => buttonsAgree(b)

\* two overlapping toggles of a book were both answered with success, and the
\* response of the first one was handled last
C11_Witness ==
    /\ last.op = "toggleResponse"
    /\ last.status = "overlap"
    /\ last.req = 1
    /\ last.result \in {"saved", "unsaved"}
    /\ toggleCount = 2
    /\ \E b \in Books : ToString(b) = last.id /\ togglesOf(b) = {}

\* C20: whenever no save and no load request is in flight, every button of
\* every book shows 'Saved' exactly when the book is in savedBooks.
C20_ButtonsMatchSavedBooks ==
    (toggles = {} /\ load.phase = "done") =>
        \A b \in Books : \A i \in ButtonIds : btnSaved[b][i] <=> b \in savedBooks

\* C12: in every state in which the widget is hidden after a toggle, no stream
\* of the client is open.
C12_HiddenWidgetHasNoOpenStream ==
    (hidden /\ last.op = "toggleChat") =>
        \A i \in 1..Len(streams) : streams[i] # "OPEN"

\* C13: the transcript holds at most one entry per message id, the ids made
\* from the clock ('temp_', 'error_') and 'welcome' included.
C13_OneEntryPerId ==
    \A i, j \in 1..Len(messages) :
        (IsMessageNode(messages[i]) /\ IsMessageNode(messages[j])
            /\ messages[i].id = messages[j].id) => i = j

\* C14: every chat-triggered save shows a notification when its request
\* completes, be the answer 2xx, not 2xx or a network failure.
C14_SaveAlwaysNotifies ==
    [][last'.op = "saveBookResponse" => Len(notifications') > Len(notifications)]_vars

\* C15: a reconnect timer that fires right after a widget toggle has initiated
\* a new connection (the timer was set by an earlier error) neither closes that
\* connection nor opens another stream.
C15_TimerAfterToggleIsNoOp ==
    [][(last.op = "toggleChat" /\ last.result = "connect"
            /\ last'.op = "reconnectTimer")
        => UNCHANGED <<streams, eventSource>>]_vars

\* C16: a frame that fails to parse is dropped: the transcript,
\* processedMessages, the pending saves and the notifications are unchanged and
\* the stream stays as it is; and the next frame with a novel key is still
\* processed (its key is recorded).
C16_UnparsableFrameDropped ==
    [][/\ (last'.op = "onmessage" /\ last'.result = "unparsable")
            => UNCHANGED <<connVars, chatVars>>
       /\ (last.op = "onmessage" /\ last.result = "unparsable" /\ Pushed
              /\ ~has(processedMessages, PushedKey))
            => has(processedMessages', PushedKey)]_vars

\* an unparsable frame arrived while the transcript held an entry
C16_Witness ==
    /\ last.op = "onmessage"
    /\ last.result = "unparsable"
    /\ messages # <<>>
    /\ processedMessages # {}

\* the number of card lists among the children
cardLists(nodes) == Cardinality({i \in 1..Len(nodes) : nodes[i].kind = "book-results"})

\* C17: when an applied event carries book_results, the card list is placed
\* directly after the entry of the triggering message, also when that entry
\* was updated in place and is not the last one.
C17_CardsFollowTheirMessage ==
    [][(Pushed /\ cardLists(messages') > cardLists(messages)) =>
        LET i == querySelectorId(messages', last'.id)
        IN i # 0 /\ i < Len(messages') /\ messages'[i + 1].kind = "book-results"]_vars

\* C19: an entry that shows content rendered by a non-thinking event is not
\* put back to the thinking placeholder by a later event for the same id.
C19_ContentNotReverted ==
    [][Pushed =>
        LET i == querySelectorId(messages, last'.id)
        IN (i # 0 /\ messages[i].content # ThinkingDots /\ Len(messages') >= i)
            => messages'[i].content # ThinkingDots]_vars

\* isConnected is true and the client's stream is open
Connected ==
    isConnected /\ eventSource # 0 /\ streams[eventSource] = "OPEN"

\* C18: from every reachable state in which the widget is visible, the client
\* eventually is Connected unless the widget is hidden again, when timers fire
\* and stream opens eventually succeed.
C18_SelfHealing == (~hidden) ~> (hidden \/ Connected)

\* the client is Connected on a stream that replaced a failed one
C18_Witness ==
    /\ ~hidden
    /\ Connected
    /\ last.op = "onopen"
    /\ eventSource >= 2
    /\ streams[1] = "CLOSED"

\* every button of the book is disabled (value TRUE) or enabled (value FALSE)
buttonsDisabled(bookId, value) ==
    \A i \in ButtonIds : btnDisabled[bookId][i] = value

\* C21: while a toggleSaveBook request for a book is in flight all buttons of
\* the book are disabled, and they are enabled when no request for the book is
\* in flight, also for overlapping calls and for failed requests.
C21_DisabledWhileInFlight ==
    \A b \in Books : buttonsDisabled(b, togglesOf(b) # {})

\* C22: an event whose rendering throws inside handleMessage is not recorded
\* in processedMessages.
C22_FailedRenderNotRecorded ==
    [][(Pushed /\ last'.result = "threw") => ~has(processedMessages', PushedKey)]_vars

====
